---------------------------- MODULE Spec2Model ----------------------------
(***************************************************************************)
(* The tester of HandedNotebook.ipynb: the transition query model(prompt,  *)
(* shot) over the historical table Model, and the aggregate loop that      *)
(* plays example_policy against it and tallies points_won / points_lost.   *)
(*                                                                         *)
(* A token ('X', '5', 'f1', 'f1*', 'n@', ...) is the sequence of its       *)
(* characters, so that the code's tests on a token's first character       *)
(* (serves_opponent) and on its trailing marker (is_win) are computed.     *)
(***************************************************************************)
EXTENDS Integers, Sequences, FiniteSets

VARIABLES
    Model,                    \* Model[<<i, j>>]: continuations recorded after (poss_prompts[i], all_shots[j])
    threshold,                \* the threshold on shots rarity
    example_policy,           \* the policy dictionary: prompt -> list of shots
    number_of_points_played,
    num,                      \* the for loop's index: points finished so far
    current_prompt,
    shot,                     \* the shot last sampled from the policy
    next_prompt,              \* what the last call of model returned
    points_won,
    points_lost,
    win_rate,                 \* <<numerator, denominator>> of the reported quotient
    pc,                       \* "for" | "while" | "done" | "error" | "call" | "returned" | "input" | "break"
    err,                      \* the exception that ended the run: [type, line]
    called,                   \* the arguments of the last call of model: <<prompt, shot>>
    turns                     \* turns taken in the current point, counted up to MaxTurns

vars == <<Model, threshold, example_policy, number_of_points_played, num,
          current_prompt, shot, next_prompt, points_won, points_lost,
          win_rate, pc, err, called, turns>>

----------------------------------------------------------------------------
(* Bounds of the model *)

MaxThreshold == 1

MaxPoints == 2

MaxLen == 2

MaxTurns == 3

----------------------------------------------------------------------------
(* Tokens *)

tX == <<"X">>

t5 == <<"5">>

tf1 == <<"f", "1">>

tStar == <<"*">>

tNet == <<"n", "@">>

tf1Star == <<"f", "1", "*">>

tf1Net == <<"f", "1", "n", "@">>

\* a serve of the opponent that wins the point outright
t5Star == <<"5", "*">>

\* a string that is in neither vocabulary
tzz == <<"z", "z">>

None == <<>>

NoErr == [type |-> "none", line |-> 0]

\* possible_prompts.p
poss_prompts == <<tX, t5, tf1, tStar, tNet, tf1Star, tf1Net, t5Star>>

\* allowed_shots.p: the prompts that are neither termination nor waiting tokens
all_shots == <<t5, tf1>>

\* the most common opponent shots with their counts, as build_historical_model returns them
shots_opo_com == << <<tf1, 7>>, <<t5, 4>>, <<tf1Star, 2>>, <<t5Star, 1>> >>

Range(s) == {s[k] : k \in 1..Len(s)}

\* list.index(x): the first position of x, 0 standing for ValueError
index(list, x) ==
    IF \E k \in 1..Len(list) : list[k] = x
    THEN CHOOSE k \in 1..Len(list) : list[k] = x /\ \A m \in 1..(k-1) : list[m] # x
    ELSE 0

\* np.random.choice(a): the values it can return; none when a is empty (ValueError)
choice(a) == Range(a)

first_is_serve(tok) == tok[1] \in {"4", "5", "6"}

\* the opponent's shots of every kind, the test on the first character left out
serves_opponent_unfiltered ==
    [k \in 1..Len(shots_opo_com) |-> shots_opo_com[k][1]]

serves_opponent ==
    SelectSeq([k \in 1..Len(shots_opo_com) |-> shots_opo_com[k][1]], first_is_serve)

----------------------------------------------------------------------------
(* utils.is_win: 1 a point won, 0 a point lost, -1 the rally goes on.      *)
(* A bare termination token is the outcome of the user's own shot: '*' a   *)
(* winner, an error marker ('@', '#') an error of the user. A shot of the  *)
(* opponent followed by a marker is the opponent's winner or error.        *)

markers == {"*", "@", "#"}

error_types == {"n", "w", "d", "x"}

bare(tok) == \A k \in 1..Len(tok) : tok[k] \in markers \cup error_types

is_win(tok) ==
    LET last == tok[Len(tok)] IN
    IF last \notin markers THEN -1
    ELSE IF last = "*" THEN (IF bare(tok) THEN 1 ELSE 0)
    ELSE (IF bare(tok) THEN 0 ELSE 1)

----------------------------------------------------------------------------
(* model(prompt, shot): the set of values the call can return; empty when  *)
(* it raises ValueError (an index that fails, a choice from nothing).      *)

n_grams_ps(prompt, sh) == Model[<<index(poss_prompts, prompt), index(all_shots, sh)>>]

\* the rarity test off by one: a pair seen exactly threshold times is sampled
model_ge(prompt, sh) ==
    IF index(poss_prompts, prompt) = 0 \/ index(all_shots, sh) = 0
    THEN {}
    ELSE IF Len(n_grams_ps(prompt, sh)) >= threshold
         THEN choice(n_grams_ps(prompt, sh))
         ELSE {tNet}

\* the first recorded continuation instead of a random one
model_first(prompt, sh) ==
    IF index(poss_prompts, prompt) = 0 \/ index(all_shots, sh) = 0
    THEN {}
    ELSE IF Len(n_grams_ps(prompt, sh)) > threshold
         THEN {n_grams_ps(prompt, sh)[1]}
         ELSE {tNet}

\* the whole n-gram returned, the shot with the continuation after it
model_ngram(prompt, sh) ==
    IF index(poss_prompts, prompt) = 0 \/ index(all_shots, sh) = 0
    THEN {}
    ELSE IF Len(n_grams_ps(prompt, sh)) > threshold
         THEN {sh \o r : r \in choice(n_grams_ps(prompt, sh))}
         ELSE {tNet}

model(prompt, sh) ==
    IF index(poss_prompts, prompt) = 0 \/ index(all_shots, sh) = 0
    THEN {}
    ELSE IF Len(n_grams_ps(prompt, sh)) > threshold
         THEN choice(n_grams_ps(prompt, sh))
         ELSE {tNet}


----------------------------------------------------------------------------
(* The inputs: tables, policies *)

Cells == (1..Len(poss_prompts)) \X (1..Len(all_shots))

\* Sequences of at most n tokens of S
SeqsUpTo(S, n) == UNION {[1..k -> S] : k \in 0..n}

\* what the history can hold after a shot: a reply, or a termination token
continuations == {tf1, tStar, tNet, tf1Star}

served == <<tf1, tf1, tf1, tStar>>

\* A table as the history fills it: the user serves to a waiting opponent,
\* returns a serve with a shot and answers a shot with a shot; no other
\* pair was ever observed.
Table(after_serve, after_shot) ==
    [c \in Cells |->
        IF c = <<index(poss_prompts, tX), index(all_shots, t5)>> THEN served
        ELSE IF c = <<index(poss_prompts, t5), index(all_shots, tf1)>> THEN after_serve
        ELSE IF c = <<index(poss_prompts, tf1), index(all_shots, tf1)>> THEN after_shot
        ELSE <<>>]

ModelTables ==
    {Table(a, b) : a \in SeqsUpTo(continuations, MaxLen), b \in SeqsUpTo(continuations, MaxLen)}

SimBuckets ==
    {<<>>, <<tf1>>, <<tf1, tf1>>, <<tf1, tStar>>, <<tf1Star, tf1Net>>, <<tNet, tf1>>}

SimTables == {Table(a, b) : a \in SimBuckets, b \in SimBuckets}

PolicyLists == {<<>>, <<tf1>>, <<tf1, tzz>>}

Policies == UNION {[K -> PolicyLists] : K \in SUBSET {t5, tf1}}

\* the dictionary indexed without a default: nothing to draw from for a missing key
get_no_default(dict, key, default) == IF key \in DOMAIN dict THEN dict[key] ELSE <<>>

\* dict.get(key, default)
get(dict, key, default) == IF key \in DOMAIN dict THEN dict[key] ELSE default

----------------------------------------------------------------------------
(* The aggregate loop *)

raise(type, line) ==
    /\ err' = [type |-> type, line |-> line]
    /\ pc' = "error"

\* a continuation taken out of the table when it is drawn
inputs_drawn_out ==
    /\ Model' = IF called' = None THEN Model
                ELSE LET c == <<index(poss_prompts, called'[1]), index(all_shots, called'[2])>> IN
                     IF c \in Cells /\ Model[c] # <<>>
                     THEN [Model EXCEPT ![c] = Tail(@)]
                     ELSE Model
    /\ UNCHANGED <<threshold, example_policy, number_of_points_played>>

\* no cell assigns the table, the threshold or the policy once they are set,
\* and neither list.index nor np.random.choice changes its argument
inputs_kept == UNCHANGED <<Model, threshold, example_policy, number_of_points_played>>

\* the cell that is run: the tester with its policy and number of points, or
\* the cell where the user types the shots of one point, which starts at 'X'
Init ==
    /\ Model \in SimTables
    /\ threshold \in 0..MaxThreshold
    /\ \/ /\ pc = "for"
          /\ example_policy \in Policies
          /\ number_of_points_played \in 0..MaxPoints
          /\ current_prompt = None
       \/ /\ pc = "input"
          /\ example_policy = [p \in {tf1} |-> <<tf1>>]
          /\ number_of_points_played = 0
          /\ current_prompt = tX
    /\ num = 0
    /\ shot = None
    /\ next_prompt = None
    /\ points_won = 0
    /\ points_lost = 0
    /\ win_rate = None
    /\ err = NoErr
    /\ called = None
    /\ turns = 0

\* for num in range(number_of_points_played): the random choice on who is serving
StartPoint ==
    /\ pc = "for"
    /\ num < number_of_points_played
    /\ \E coin \in 0..1 :
          IF coin = 0
          THEN current_prompt' = tX
          ELSE current_prompt' \in choice(serves_opponent)
    /\ pc' = "while"
    /\ turns' = 0
    /\ UNCHANGED <<Model, threshold, example_policy, number_of_points_played, num,
                   shot, next_prompt, points_won, points_lost, win_rate, err, called>>

\* the test written as a truth value: -1, the rally going on, counts as a win
won_after_truthy(prompt) == IF is_win(prompt) # 0 THEN points_won + 1 ELSE points_won

won_after(prompt) == IF is_win(prompt) = 1 THEN points_won + 1 ELSE points_won

\* the two counters taken for each other
lost_after_swapped(prompt) == IF is_win(prompt) = 1 THEN points_lost + 1 ELSE points_lost

lost_after(prompt) ==
    IF is_win(prompt) # 1 /\ is_win(prompt) = 0 THEN points_lost + 1 ELSE points_lost

\* the second test forgotten: the loop goes on after a lost point
breaks_on_win_only(prompt) == is_win(prompt) = 1

\* whether the while loop breaks on this prompt
breaks(prompt) == is_win(prompt) = 1 \/ is_win(prompt) = 0

\* one pass of the while loop's body
Turn ==
    /\ pc = "while"
    /\ LET a == get(example_policy, current_prompt, <<t5>>) IN
       \/ /\ choice(a) = {}
          /\ raise("ValueError", 243)
          /\ UNCHANGED <<shot, next_prompt, current_prompt, points_won, points_lost,
                         num, called, turns>>
       \/ \E s \in choice(a) :
             /\ shot' = s
             /\ called' = <<current_prompt, s>>
             /\ \/ /\ model(current_prompt, s) = {}
                   /\ raise("ValueError", 244)
                   /\ UNCHANGED <<next_prompt, current_prompt, points_won, points_lost,
                                  num, turns>>
                \/ \E r \in model(current_prompt, s) :
                      /\ next_prompt' = r
                      /\ current_prompt' = r
                      /\ points_won' = won_after(r)
                      /\ points_lost' = lost_after(r)
                      /\ turns' = IF turns < MaxTurns THEN turns + 1 ELSE turns
                      /\ IF breaks(r)
                         THEN pc' = "for" /\ num' = num + 1
                         ELSE pc' = "while" /\ num' = num
                      /\ err' = err
    /\ inputs_kept
    /\ UNCHANGED win_rate

\* the quotient the last cell prints
quotient_lost_only == <<points_won, points_lost>>

quotient == <<points_won, points_lost + points_won>>

\* print('How well are we performing? ', points_won/(points_lost + points_won))
Report ==
    /\ pc = "for"
    /\ num = number_of_points_played
    /\ IF quotient[2] = 0
       THEN raise("ZeroDivisionError", 253) /\ win_rate' = win_rate
       ELSE win_rate' = quotient /\ pc' = "done" /\ err' = err
    /\ UNCHANGED <<Model, threshold, example_policy, number_of_points_played, num,
                   current_prompt, shot, next_prompt, points_won, points_lost,
                   called, turns>>

\* one pass of the loop in which the user types the shot
Interactive ==
    /\ pc = "input"
    /\ \E s \in Range(all_shots) \cup {tzz} :
          /\ shot' = s
          /\ called' = <<current_prompt, s>>
          /\ \/ /\ model(current_prompt, s) = {}
                /\ raise("ValueError", 191)
                /\ UNCHANGED <<next_prompt, current_prompt, turns>>
             \/ \E r \in model(current_prompt, s) :
                   /\ next_prompt' = r
                   /\ current_prompt' = r
                   /\ turns' = IF turns < MaxTurns THEN turns + 1 ELSE turns
                   /\ pc' = IF breaks(r) THEN "break" ELSE "input"
                   /\ err' = err
    /\ inputs_kept
    /\ UNCHANGED <<num, points_won, points_lost, win_rate>>

Next == StartPoint \/ Turn \/ Report \/ Interactive

Spec == Init /\ [][Next]_vars

----------------------------------------------------------------------------
(* The transition query on its own: the cell that calls model('5', 'f28') *)

InitModel ==
    /\ Model \in ModelTables
    /\ threshold \in 0..MaxThreshold
    /\ example_policy = [p \in {tf1} |-> <<tf1>>]
    /\ number_of_points_played = 0
    /\ num = 0
    /\ current_prompt = None
    /\ shot = None
    /\ next_prompt = None
    /\ points_won = 0
    /\ points_lost = 0
    /\ win_rate = None
    /\ pc = "call"
    /\ err = NoErr
    /\ called = None
    /\ turns = 0

CallModel ==
    /\ pc = "call"
    /\ \E prompt \in Range(poss_prompts), sh \in Range(all_shots) \cup {tzz} :
          /\ called' = <<prompt, sh>>
          /\ \/ /\ model(prompt, sh) = {}
                /\ raise("ValueError", 164)
                /\ next_prompt' = next_prompt
             \/ \E r \in model(prompt, sh) :
                   /\ next_prompt' = r
                   /\ pc' = "returned"
                   /\ err' = err
    /\ UNCHANGED <<Model, threshold, example_policy, number_of_points_played, num,
                   current_prompt, shot, points_won, points_lost, win_rate, turns>>

NextModel == CallModel

ModelSpec == InitModel /\ [][NextModel]_vars

----------------------------------------------------------------------------
(* Properties of the transition query, under ModelSpec *)

Count(x, s) == Cardinality({k \in 1..Len(s) : s[k] = x})

\* the call that has returned was made with a prompt and a shot of the vocabularies
ReturnedFrom == pc = "returned"

bucket == n_grams_ps(called[1], called[2])

\* C1: for every prompt of poss_prompts and shot of all_shots whose recorded
\* sequence is no longer than the threshold (the never observed pairs among
\* them, whatever the threshold), model can return the fallback 'n@' and
\* nothing else, and the call that has returned did return it.
C1_FallbackWhenRare ==
    /\ \A c \in Cells :
          Len(Model[c]) <= threshold
             => model(poss_prompts[c[1]], all_shots[c[2]]) = {tNet}
    /\ (ReturnedFrom /\ Len(bucket) <= threshold) => next_prompt = tNet

\* a pair observed exactly threshold >= 1 times, none of them 'n@', was queried
C1_Witness ==
    /\ ReturnedFrom
    /\ threshold >= 1
    /\ Len(bucket) = threshold
    /\ tNet \notin Range(bucket)
    /\ next_prompt = tNet

C7_NeverRareReaction ==
    (ReturnedFrom /\ Len(bucket) > threshold) => Count(next_prompt, bucket) > threshold

----------------------------------------------------------------------------
(* Properties of the aggregate loop, under Spec *)

allowed(sh) == sh \in Range(all_shots)

\* C3: when the policy yields a shot that is not in all_shots, the query
\* answers through the fallback and no exception ends the run.
C3_InvalidShotTakesFallback ==
    (called # None /\ ~allowed(called[2])) => (err = NoErr /\ next_prompt = tNet)

\* C4: the turn in which the policy replies with a string that is not in
\* all_shots ends the point as a lost one: points_lost is incremented and
\* points_won is not.
C4_InvalidShotLosesPoint ==
    [][(pc = "while" /\ called' # called /\ ~allowed(shot'))
          => (points_lost' = points_lost + 1 /\ points_won' = points_won)]_vars

C6_PointEndsWithinMaxTurns == turns < MaxTurns

reported(rate) ==
    /\ rate = <<points_won, points_won + points_lost>>
    /\ rate[2] > 0
    /\ 0 <= rate[1]
    /\ rate[1] <= rate[2]

\* C8 as stated: for every configured number of points, the evaluation ends
\* with the quotient points_won / (points_won + points_lost), a number
\* between 0 and 1.
C8_WinRateForEveryNumberOfPoints ==
    /\ err.type # "ZeroDivisionError"
    /\ pc = "done" => reported(win_rate)

\* C8 amended: for every configured number of points >= 1, the report never
\* divides by zero, and a run that finishes reports the quotient
\* points_won / (points_won + points_lost), a number between 0 and 1.
C8_WinRateWhenPointsPlayed ==
    number_of_points_played >= 1
       => /\ err.type # "ZeroDivisionError"
          /\ pc = "done" => reported(win_rate)

\* a run has reported a rate strictly between 0 and 1
C8_Witness ==
    /\ pc = "done"
    /\ points_won >= 1
    /\ points_lost >= 1
    /\ win_rate = <<points_won, points_won + points_lost>>

\* C9: a policy with an empty shot list never fails in the middle of a
\* simulation, when the entry's prompt is reached: it was rejected before.
C9_EmptyEntryRejectedBeforeSimulation ==
    (\E p \in DOMAIN example_policy : example_policy[p] = <<>>)
       => ~(err.type = "ValueError" /\ err.line = 243)

\* C11: a turn taken on a prompt the policy has no entry for does not fail
\* and passes exactly '5' to model; a turn on a prompt that has an entry
\* draws its shot from that entry's list and passes it to model.
C11_ShotFromPolicyOrDefault ==
    [][pc = "while"
          => /\ current_prompt \notin DOMAIN example_policy
                   => (err' = NoErr /\ shot' = t5 /\ called' = <<current_prompt, t5>>)
             /\ (current_prompt \in DOMAIN example_policy /\ err'.line # 243)
                   => /\ shot' \in Range(example_policy[current_prompt])
                      /\ called' = <<current_prompt, shot'>>]_vars

\* the default '5' was played on a prompt without an entry, and the run goes on
C11_Witness ==
    /\ called # None
    /\ called[1] \notin DOMAIN example_policy
    /\ called[1] # tX
    /\ DOMAIN example_policy # {}
    /\ shot = t5
    /\ err = NoErr
    /\ pc \in {"for", "while"}

\* C12: a turn that ends a point increments exactly one of points_won and
\* points_lost, by 1, and a turn that does not end it changes neither; so
\* the two counters always add up to the number of points completed, which
\* is number_of_points_played when the run has reported.
C12_OneCounterPerPoint ==
    /\ [](points_won + points_lost = num)
    /\ [](pc = "done" => points_won + points_lost = number_of_points_played)
    /\ [][(pc = "while" /\ err' = NoErr)
             => IF pc' = "for"
                THEN /\ num' = num + 1
                     /\ \/ points_won' = points_won + 1 /\ points_lost' = points_lost
                        \/ points_won' = points_won /\ points_lost' = points_lost + 1
                ELSE /\ num' = num
                     /\ points_won' = points_won
                     /\ points_lost' = points_lost]_vars

\* the second point has just ended after a turn that did not end it, with
\* one point won and one lost
C12_Witness ==
    /\ pc = "for"
    /\ num = 2
    /\ turns >= 2
    /\ points_won = 1
    /\ points_lost = 1

in_point == pc \in {"while", "input"}

\* what every transition of a point does: the new prompt is classified, the
\* loop goes on if and only if it is not terminal
classified_after_transition ==
    [][(in_point /\ err' = NoErr)
          => /\ current_prompt' = next_prompt'
             /\ (pc' = pc) <=> (is_win(next_prompt') = -1)]_vars

\* C13 as stated: the classification is applied after every transition, the
\* loop goes on if and only if the new prompt is not terminal, and no shot
\* is ever sampled in response to a terminal prompt.
C13_NoShotOnTerminalPrompt ==
    /\ classified_after_transition
    /\ [](in_point => is_win(current_prompt) = -1)

\* C13 amended: the classification is applied after every transition, the
\* loop goes on if and only if the new prompt is not terminal, and no shot
\* is ever sampled in response to a terminal prompt that model returned (a
\* point's starting prompt is not classified).
C13_NoShotOnReturnedTerminalPrompt ==
    /\ classified_after_transition
    /\ []((in_point /\ turns > 0) => is_win(current_prompt) = -1)

\* a point went on after its first transition and ended at a later one, the
\* first to give a terminal prompt
C13_Witness ==
    /\ pc \in {"for", "break"}
    /\ turns >= 2
    /\ current_prompt = next_prompt
    /\ is_win(next_prompt) # -1

\* C14: every prompt passed to model, a point's starting prompt or a prompt
\* model returned, is in poss_prompts, so a call of model in the loops
\* fails on the shot's index or not at all.
C14_PromptsInVocabulary ==
    /\ in_point => current_prompt \in Range(poss_prompts)
    /\ called # None => index(poss_prompts, called[1]) # 0
    /\ (err.type = "ValueError" /\ err.line \in {191, 244}) => ~allowed(called[2])

\* a prompt that model returned was passed to model again, and it answered
C14_Witness ==
    /\ called # None
    /\ turns >= 2
    /\ called[1] = tf1
    /\ err = NoErr
    /\ next_prompt # None

\* a token of the opponent's shots whose first character is 4, 5 or 6
opponent_serve(tok) ==
    /\ \E k \in 1..Len(shots_opo_com) : shots_opo_com[k][1] = tok
    /\ tok[1] \in {"4", "5", "6"}

\* C15: the step that starts a point sets the current prompt to 'X' or to
\* an opponent token whose first character is 4, 5 or 6, whatever prompt
\* the previous point ended on; a point that has taken no turn yet stands
\* on such a prompt.
C15_PointStartsAfresh ==
    /\ [][(pc = "for" /\ pc' = "while")
             => /\ current_prompt' = tX \/ opponent_serve(current_prompt')
                /\ turns' = 0
                /\ points_won' = points_won
                /\ points_lost' = points_lost]_vars
    /\ []((pc = "while" /\ turns = 0)
             => (current_prompt = tX \/ opponent_serve(current_prompt)))

\* a later point starts on a serve while the previous point's terminal
\* prompt is still what model returned last
C15_Witness ==
    /\ pc = "while"
    /\ turns = 0
    /\ num >= 1
    /\ is_win(next_prompt) # -1
    /\ opponent_serve(current_prompt)
    /\ current_prompt # next_prompt

\* C16: no step changes the table, the threshold, the policy or the number
\* of points (the vocabularies are fixed lists), and a turn changes neither
\* the reported rate nor, unless it ends the point, a counter; when it ends
\* the point it changes one counter only.
C16_TurnKeepsInputs ==
    [][/\ Model' = Model
       /\ threshold' = threshold
       /\ example_policy' = example_policy
       /\ number_of_points_played' = number_of_points_played
       /\ in_point
             => /\ win_rate' = win_rate
                /\ (points_won' # points_won \/ points_lost' # points_lost)
                      => (pc = "while" /\ pc' = "for")
                /\ points_won' = points_won \/ points_lost' = points_lost]_vars

\* model has drawn a continuation from a sequence of the table, which still
\* holds it
C16_Witness ==
    /\ called # None
    /\ err = NoErr
    /\ allowed(called[2])
    /\ Len(bucket) > threshold
    /\ next_prompt \in Range(bucket)
    /\ current_prompt = next_prompt

============================================================================
